---- MODULE Spec2Model ----
(***************************************************************************)
(* Model of scripts/translate-docs.py: the markdown-aware protection,      *)
(* segmentation and reconstruction engine (translate_markdown_file,        *)
(* protect_inline_elements, restore_placeholders) and the anchor remapper  *)
(* (text_to_anchor, fix_heading_anchors).                                  *)
(*                                                                         *)
(* A Python str is modelled as a sequence of characters; a character is a  *)
(* one-element atom (a TLA+ string).  Characters that cannot be written in *)
(* a TLA+ string literal are named: BT (backtick), LF (newline), TAB,      *)
(* PH_PREFIX (U+27E8), PH_SUFFIX (U+27E9), and the non-ASCII letters and   *)
(* punctuation used by the slug examples.                                  *)
(***************************************************************************)
EXTENDS Integers, Sequences, FiniteSets, TLC

\* ------------------------------------------------------------------------
\* Characters and character classes
\* ------------------------------------------------------------------------

BT == "bt"
LF == "lf"
TAB == "tab"
PH_PREFIX == "U27E8"
PH_SUFFIX == "U27E9"
E_ACUTE == "e_acute"
E_ACUTE_UPPER == "E_ACUTE"
INV_QUESTION == "inv_question"

DigitChars == <<"0", "1", "2", "3", "4", "5", "6", "7", "8", "9">>

IsDigit(c) == \E d \in 1..10 : DigitChars[d] = c

\* Python's \s and str.strip() whitespace, restricted to the model's alphabet
IsSpace(c) == c \in {" ", TAB, LF}

LowerChars ==
    << "a", "b", "c", "d", "e", "f", "g", "h", "i", "j", "k", "l", "m",
       "n", "o", "p", "q", "r", "s", "t", "u", "v", "w", "x", "y", "z" >>

UpperChars ==
    << "A", "B", "C", "D", "E", "F", "G", "H", "I", "J", "K", "L", "M",
       "N", "O", "P", "Q", "R", "S", "T", "U", "V", "W", "X", "Y", "Z" >>

\* [a-z] as the regular expressions of the source see it: ASCII only
IsAsciiLower(c) == \E k \in 1..Len(LowerChars) : LowerChars[k] = c

IsAsciiUpper(c) == \E k \in 1..Len(UpperChars) : UpperChars[k] = c

\* str.lower() on one character
LowerChar(c) ==
    IF IsAsciiUpper(c)
    THEN LowerChars[CHOOSE k \in 1..Len(UpperChars) : UpperChars[k] = c]
    ELSE IF c = E_ACUTE_UPPER THEN E_ACUTE ELSE c

\* What Unicode calls a letter (str.isalpha), on the model's alphabet
IsLetter(c) == IsAsciiLower(c) \/ IsAsciiUpper(c) \/ c \in {E_ACUTE, E_ACUTE_UPPER}

\* ------------------------------------------------------------------------
\* String helpers (str methods)
\* ------------------------------------------------------------------------

\* s[i:] has prefix pat (1-based i)
StartsAt(s, pat, i) ==
    /\ i >= 1
    /\ i + Len(pat) - 1 <= Len(s)
    /\ \A k \in 1..Len(pat) : s[i + k - 1] = pat[k]

\* str.find(pat, i): least position >= i where pat occurs, 0 when none
Find(s, pat, i) ==
    LET hits == {j \in i..Len(s) : StartsAt(s, pat, j)}
    IN  IF hits = {} THEN 0 ELSE CHOOSE j \in hits : \A k \in hits : j <= k

\* s[i:] from 1-based position i
From(s, i) == SubSeq(s, i, Len(s))

\* str.startswith / str.endswith
StartsWith(s, pat) == StartsAt(s, pat, 1)

EndsWith(s, pat) == StartsAt(s, pat, Len(s) - Len(pat) + 1)

\* number of leading / trailing characters satisfying a class
RECURSIVE LeadingSpaces(_, _)
LeadingSpaces(s, i) ==
    IF i <= Len(s) /\ IsSpace(s[i]) THEN LeadingSpaces(s, i + 1) ELSE i - 1

RECURSIVE TrailingStart(_, _)
TrailingStart(s, j) ==
    IF j >= 1 /\ IsSpace(s[j]) THEN TrailingStart(s, j - 1) ELSE j

\* str.lstrip(), str.strip()
LStrip(s) == From(s, LeadingSpaces(s, 1) + 1)

Strip(s) ==
    LET a == LeadingSpaces(s, 1) + 1
        b == TrailingStart(s, Len(s))
    IN  IF a > b THEN <<>> ELSE SubSeq(s, a, b)

\* str.replace(old, new): leftmost, non-overlapping occurrences
RECURSIVE ReplaceFrom(_, _, _, _)
ReplaceFrom(s, old, new, i) ==
    IF i > Len(s) THEN <<>>
    ELSE IF StartsAt(s, old, i)
         THEN new \o ReplaceFrom(s, old, new, i + Len(old))
         ELSE <<s[i]>> \o ReplaceFrom(s, old, new, i + 1)

Replace(s, old, new) == ReplaceFrom(s, old, new, 1)

\* str.count(c) for one character
RECURSIVE CountChar(_, _)
CountChar(s, c) ==
    IF s = <<>> THEN 0
    ELSE (IF Head(s) = c THEN 1 ELSE 0) + CountChar(Tail(s), c)

\* "\n".join(lines) and content.split("\n")
RECURSIVE JoinWith(_, _)
JoinWith(parts, sep) ==
    IF parts = <<>> THEN <<>>
    ELSE IF Len(parts) = 1 THEN parts[1]
    ELSE parts[1] \o sep \o JoinWith(Tail(parts), sep)

RECURSIVE SplitOn(_, _)
SplitOn(s, c) ==
    LET j == Find(s, <<c>>, 1)
    IN  IF j = 0 THEN <<s>>
        ELSE <<SubSeq(s, 1, j - 1)>> \o SplitOn(From(s, j + 1), c)

\* str(idx) for a non-negative integer: its decimal digits
RECURSIVE IntToStr(_)
IntToStr(n) ==
    IF n < 10 THEN <<DigitChars[n + 1]>>
    ELSE IntToStr(n \div 10) \o <<DigitChars[(n % 10) + 1]>>

\* ------------------------------------------------------------------------
\* Regular expressions of the protector.  A matcher gives the position just
\* after the match that starts at i, or 0 when the pattern does not match
\* at i.
\* ------------------------------------------------------------------------

\* RE_LINK_FULL  \[([^\]]*)\]\(([^)]+)\)
\* [^\]]* ends at the first "]" and [^)]+ at the first ")": no backtracking
\* alternative exists.  rb is the position of "]", rp of the closing ")".
LinkCloseBracket(s, i) == Find(s, <<"]">>, i + 1)

LinkCloseParen(s, i) == Find(s, <<")">>, LinkCloseBracket(s, i) + 2)

RE_LINK_FULL(s, i) ==
    IF /\ StartsAt(s, <<"[">>, i)
       /\ LinkCloseBracket(s, i) # 0
       /\ StartsAt(s, <<"(">>, LinkCloseBracket(s, i) + 1)
       /\ LinkCloseParen(s, i) >= LinkCloseBracket(s, i) + 3
    THEN LinkCloseParen(s, i) + 1
    ELSE 0

\* RE_BOLD_LINK  \*\*\[([^\]]*)\]\(([^)]+)\)\*\*
RE_BOLD_LINK(s, i) ==
    IF /\ StartsAt(s, <<"*", "*">>, i)
       /\ RE_LINK_FULL(s, i + 2) # 0
       /\ StartsAt(s, <<"*", "*">>, RE_LINK_FULL(s, i + 2))
    THEN RE_LINK_FULL(s, i + 2) + 2
    ELSE 0

\* RE_INLINE_CODE  `([^`]+)`
RE_INLINE_CODE(s, i) ==
    IF /\ StartsAt(s, <<BT>>, i)
       /\ Find(s, <<BT>>, i + 1) >= i + 2
    THEN Find(s, <<BT>>, i + 1) + 1
    ELSE 0

\* RE_BOLD_TEXT  \*\*(.+?)\*\*   (lazy: the first closing ** at distance >= 1;
\* "." does not match a newline)
BoldClose(s, i) == Find(s, <<"*", "*">>, i + 3)

RE_BOLD_TEXT(s, i) ==
    IF /\ StartsAt(s, <<"*", "*">>, i)
       /\ BoldClose(s, i) # 0
       /\ \A k \in (i + 2)..(BoldClose(s, i) - 1) : s[k] # LF
    THEN BoldClose(s, i) + 2
    ELSE 0

\* ------------------------------------------------------------------------
\* protect_inline_elements
\* ------------------------------------------------------------------------

make_placeholder(idx) == <<PH_PREFIX>> \o IntToStr(idx) \o <<PH_SUFFIX>>

\* The dict `placeholders` is a sequence of [ph, original] in insertion
\* order (keys are unique: the counter only grows).  A pass state is
\* [out, placeholders, counter].
PassState(out, phs, counter) ==
    [out |-> out, placeholders |-> phs, counter |-> counter]

\* replace_bold_link: one placeholder for the whole match
replace_bold_link(s, i, e, st) ==
    PassState(st.out \o make_placeholder(st.counter),
              Append(st.placeholders,
                     [ph |-> make_placeholder(st.counter),
                      original |-> SubSeq(s, i, e - 1)]),
              st.counter + 1)

\* replace_link: paired placeholders "[" and "](url)", display text exposed
replace_link(s, i, e, st) ==
    LET rb == LinkCloseBracket(s, i)
        display_text == SubSeq(s, i + 1, rb - 1)
        url == SubSeq(s, rb + 2, e - 2)
        ph_open == make_placeholder(st.counter)
        ph_close == make_placeholder(st.counter + 1)
    IN  PassState(st.out \o ph_open \o display_text \o ph_close,
                  st.placeholders \o
                      << [ph |-> ph_open, original |-> <<"[">>],
                         [ph |-> ph_close,
                          original |-> <<"]", "(">> \o url \o <<")">>] >>,
                  st.counter + 2)

\* replace_inline_code: one placeholder for the span, backticks included
replace_inline_code(s, i, e, st) ==
    PassState(st.out \o make_placeholder(st.counter),
              Append(st.placeholders,
                     [ph |-> make_placeholder(st.counter),
                      original |-> SubSeq(s, i, e - 1)]),
              st.counter + 1)

\* replace_bold: paired placeholders for the two ** markers
replace_bold(s, i, e, st) ==
    LET inner == SubSeq(s, i + 2, e - 3)
        ph_open == make_placeholder(st.counter)
        ph_close == make_placeholder(st.counter + 1)
    IN  PassState(st.out \o ph_open \o inner \o ph_close,
                  st.placeholders \o
                      << [ph |-> ph_open, original |-> <<"*", "*">>],
                         [ph |-> ph_close, original |-> <<"*", "*">>] >>,
                  st.counter + 2)

\* The four passes, in the order the source runs them
PassMatch(pass, s, i) ==
    CASE pass = "bold_link" -> RE_BOLD_LINK(s, i)
      [] pass = "link" -> RE_LINK_FULL(s, i)
      [] pass = "inline_code" -> RE_INLINE_CODE(s, i)
      [] pass = "bold" -> RE_BOLD_TEXT(s, i)

PassRepl(pass, s, i, e, st) ==
    CASE pass = "bold_link" -> replace_bold_link(s, i, e, st)
      [] pass = "link" -> replace_link(s, i, e, st)
      [] pass = "inline_code" -> replace_inline_code(s, i, e, st)
      [] pass = "bold" -> replace_bold(s, i, e, st)

\* pattern.sub(repl, s): scan left to right, replace each leftmost match,
\* resume just after it
RECURSIVE ProtectSub(_, _, _, _)
ProtectSub(pass, s, i, st) ==
    IF i > Len(s) THEN st
    ELSE IF PassMatch(pass, s, i) # 0
         THEN ProtectSub(pass, s, PassMatch(pass, s, i),
                         PassRepl(pass, s, i, PassMatch(pass, s, i), st))
         ELSE ProtectSub(pass, s, i + 1, [st EXCEPT !.out = Append(@, s[i])])

\* One pass: the text of the pass before is scanned, the map and the counter
\* carry over
ProtectPass(pass, st) ==
    ProtectSub(pass, st.out, 1, PassState(<<>>, st.placeholders, st.counter))

PassOrder == <<"bold_link", "link", "inline_code", "bold">>

\* Returns [out |-> protected text, placeholders |-> the map, counter]
protect_inline_elements(text) ==
    ProtectPass(PassOrder[4],
        ProtectPass(PassOrder[3],
            ProtectPass(PassOrder[2],
                ProtectPass(PassOrder[1], PassState(text, <<>>, 0)))))

\* ------------------------------------------------------------------------
\* restore_placeholders
\* ------------------------------------------------------------------------

\* sorted(placeholders.items(), key=lambda x: -len(x[0])): a stable sort,
\* longest key first, insertion order among keys of one length
RECURSIVE InsertByKeyLen(_, _)
InsertByKeyLen(sorted, item) ==
    IF sorted = <<>> THEN <<item>>
    ELSE IF Len(Head(sorted).ph) >= Len(item.ph)
         THEN <<Head(sorted)>> \o InsertByKeyLen(Tail(sorted), item)
         ELSE <<item>> \o sorted

RECURSIVE SortedByKeyLen(_)
SortedByKeyLen(phs) ==
    IF phs = <<>> THEN <<>>
    ELSE InsertByKeyLen(SortedByKeyLen(SubSeq(phs, 1, Len(phs) - 1)),
                        phs[Len(phs)])

\* for ph, original in sorted(...): result = result.replace(ph, original)
RECURSIVE ReplaceAll(_, _)
ReplaceAll(result, items) ==
    IF items = <<>> THEN result
    ELSE ReplaceAll(Replace(result, Head(items).ph, Head(items).original),
                    Tail(items))

\* ph_re = PH_PREFIX \d+ PH_SUFFIX
RECURSIVE DigitsEnd(_, _)
DigitsEnd(s, i) ==
    IF i <= Len(s) /\ IsDigit(s[i]) THEN DigitsEnd(s, i + 1) ELSE i

ph_re(s, i) ==
    IF /\ StartsAt(s, <<PH_PREFIX>>, i)
       /\ DigitsEnd(s, i + 1) > i + 1
       /\ StartsAt(s, <<PH_SUFFIX>>, DigitsEnd(s, i + 1))
    THEN DigitsEnd(s, i + 1) + 1
    ELSE 0

known(placeholders) == {placeholders[k].ph : k \in 1..Len(placeholders)}

\* clean_spurious: a token that is a key stays, any other is removed
clean_spurious(token, keys) == IF token \in keys THEN token ELSE <<>>

RECURSIVE CleanSpuriousSub(_, _, _)
CleanSpuriousSub(s, i, keys) ==
    IF i > Len(s) THEN <<>>
    ELSE IF ph_re(s, i) # 0
         THEN clean_spurious(SubSeq(s, i, ph_re(s, i) - 1), keys)
                  \o CleanSpuriousSub(s, ph_re(s, i), keys)
         ELSE <<s[i]>> \o CleanSpuriousSub(s, i + 1, keys)

\* ,\s*,   and   ,\s*\)   : a comma, a whitespace run, then the closer
CommaThen(s, i, closer) ==
    IF /\ StartsAt(s, <<",">>, i)
       /\ StartsAt(s, <<closer>>, LeadingSpaces(s, i + 1) + 1)
    THEN LeadingSpaces(s, i + 1) + 2
    ELSE 0

\* re.sub(r",\s*<closer>", "<closer>", s)
RECURSIVE CommaSub(_, _, _)
CommaSub(s, i, closer) ==
    IF i > Len(s) THEN <<>>
    ELSE IF CommaThen(s, i, closer) # 0
         THEN <<closer>> \o CommaSub(s, CommaThen(s, i, closer), closer)
         ELSE <<s[i]>> \o CommaSub(s, i + 1, closer)

restore_placeholders(text, placeholders) ==
    LET replaced == ReplaceAll(text, SortedByKeyLen(placeholders))
        cleaned == CleanSpuriousSub(replaced, 1, known(placeholders))
        commas == CommaSub(cleaned, 1, ",")
    IN  CommaSub(commas, 1, ")")

\* ------------------------------------------------------------------------
\* Line classifier (translate_markdown_file, phase 1)
\* ------------------------------------------------------------------------

BOX == "box_drawing"
FENCE == <<BT, BT, BT>>

\* RE_TABLE_SEP  ^\|[-\s|:]+\|$   on the stripped line
RE_TABLE_SEP(s) ==
    /\ Len(s) >= 3
    /\ s[1] = "|"
    /\ s[Len(s)] = "|"
    /\ \A k \in 2..(Len(s) - 1) : s[k] \in {"-", "|", ":"} \/ IsSpace(s[k])

\* The character class of RE_ASCII_ART (BOX stands for the box-drawing
\* characters, which both glyph sets hold)
AsciiArtStartGlyphs == {BOX, "|", "+", "-", "\\", "/", ">", "<", "=", "*"}

\* Mutant of AsciiArtRatioGlyphs: the ratio test counts the regex's class
AsciiArtRatioGlyphsAsStart ==
    {BOX, "|", "+", "-", "\\", "/", ">", "<", "=", "*"}

\* The string the ratio test of is_ascii_art_line counts
AsciiArtRatioGlyphs == {BOX, "|", "+", "\\", "/", ">", "<", "="}

RECURSIVE GlyphRunEnd(_, _)
GlyphRunEnd(s, i) ==
    IF i <= Len(s) /\ s[i] \in AsciiArtStartGlyphs
    THEN GlyphRunEnd(s, i + 1) ELSE i

\* RE_ASCII_ART.match(line)   ^[\s]*[...]{3,}
RE_ASCII_ART(line) ==
    LET a == LeadingSpaces(line, 1) + 1
    IN  GlyphRunEnd(line, a) - a >= 3

CountIn(s, set) == Cardinality({k \in 1..Len(s) : s[k] \in set})

\* special / len(stripped) > 0.4, in integers
is_ascii_art_line(line) ==
    LET stripped == Strip(line)
    IN  IF stripped = <<>> THEN FALSE
        ELSE IF RE_ASCII_ART(line) THEN TRUE
        ELSE 5 * CountIn(stripped, AsciiArtRatioGlyphs) > 2 * Len(stripped)

\* One iteration of the phase 1 loop: the line's type and the flag after it
TogglesFence(line) == StartsWith(Strip(line), FENCE)

ClassifyType(line, in_code) ==
    IF TogglesFence(line) THEN "code"
    ELSE IF in_code THEN "code"
    ELSE IF Strip(line) = <<>> THEN "pass-through"
    ELSE IF RE_TABLE_SEP(Strip(line)) THEN "pass-through"
    ELSE IF is_ascii_art_line(line) THEN "pass-through"
    ELSE "translatable"

\* Mutant of ClassifyFlag: a fence opens the region and nothing closes it
ClassifyFlagNeverCloses(line, in_code) == in_code \/ TogglesFence(line)

ClassifyFlag(line, in_code) ==
    IF TogglesFence(line) THEN ~in_code ELSE in_code

\* ------------------------------------------------------------------------
\* Segment extractor (phase 2)
\* ------------------------------------------------------------------------

RECURSIVE RunEnd(_, _, _)
\* end (exclusive) of the run of characters of `set` that starts at i
RunEnd(s, i, set) ==
    IF i <= Len(s) /\ s[i] \in set THEN RunEnd(s, i + 1, set) ELSE i

SpaceEnd(s, i) == LeadingSpaces(s, i) + 1

\* RE_HEADING  ^(#{1,6}\s+) : length of group 1, 0 when no match
RE_HEADING(s) ==
    LET h == RunEnd(s, 1, {"#"}) - 1
    IN  IF h >= 1 /\ h <= 6 /\ SpaceEnd(s, h + 1) > h + 1
        THEN SpaceEnd(s, h + 1) - 1 ELSE 0

\* RE_BLOCKQUOTE  ^(\s*>\s*) : length of group 1, 0 when no match
RE_BLOCKQUOTE(s) ==
    LET a == SpaceEnd(s, 1)
    IN  IF StartsAt(s, <<">">>, a) THEN SpaceEnd(s, a + 1) - 1 ELSE 0

\* ^(\s*[-*+]\s+|\s*\d+\.\s+) : length of group 1, 0 when no match
RE_LIST_MARKER(s) ==
    LET a == SpaceEnd(s, 1)
        d == DigitsEnd(s, a)
    IN  IF a <= Len(s) /\ s[a] \in {"-", "*", "+"} /\ SpaceEnd(s, a + 1) > a + 1
        THEN SpaceEnd(s, a + 1) - 1
        ELSE IF d > a /\ StartsAt(s, <<".">>, d) /\ SpaceEnd(s, d + 1) > d + 1
        THEN SpaceEnd(s, d + 1) - 1
        ELSE 0

\* Strips one kind of prefix: st = [prefix, text]
StripPrefix(st, n) ==
    [prefix |-> st.prefix \o SubSeq(st.text, 1, n), text |-> From(st.text, n + 1)]

\* heading, then blockquote, then list marker
SplitPrefix(line) ==
    LET s0 == [prefix |-> <<>>, text |-> line]
        s1 == StripPrefix(s0, RE_HEADING(s0.text))
        s2 == StripPrefix(s1, RE_BLOCKQUOTE(s1.text))
    IN  StripPrefix(s2, RE_LIST_MARKER(s2.text))

IsTableRow(text) ==
    StartsWith(Strip(text), <<"|">>) /\ EndsWith(Strip(text), <<"|">>)

\* One entry of cell_segments; "translated" is absent (<<>>) or <<string>>
CellSegment(cell) ==
    LET stripped_cell == Strip(cell)
        p == protect_inline_elements(stripped_cell)
    IN  IF stripped_cell # <<>>
        THEN [text |-> p.out, placeholders |-> p.placeholders, translated |-> <<>>]
        ELSE [text |-> <<>>, placeholders |-> <<>>, translated |-> <<>>]

TableRowSegment(i, prefix, text) ==
    LET cells == SplitOn(text, "|")
    IN  [line_idx |-> i, type |-> "table_row",
         cells |-> [c \in 1..Len(cells) |-> CellSegment(cells[c])],
         prefix |-> prefix]

TextSegment(i, prefix, text) ==
    LET p == protect_inline_elements(text)
    IN  [line_idx |-> i, type |-> "text", protected_text |-> p.out,
         placeholders |-> p.placeholders, prefix |-> prefix, translated |-> <<>>]

\* Mutant of LineSegments: the table-row branch falls through (no
\* `continue`), so a table row also gives a text segment
LineSegmentsNoContinue(i, line, ltype) ==
    LET sp == SplitPrefix(line)
    IN  IF ltype # "translatable" THEN <<>>
        ELSE (IF IsTableRow(sp.text)
              THEN <<TableRowSegment(i, sp.prefix, sp.text)>> ELSE <<>>)
             \o (IF Strip(sp.text) = <<>> THEN <<>>
                 ELSE <<TextSegment(i, sp.prefix, sp.text)>>)

\* The segments line i contributes: none or one
LineSegments(i, line, ltype) ==
    LET sp == SplitPrefix(line)
    IN  IF ltype # "translatable" THEN <<>>
        ELSE IF IsTableRow(sp.text) THEN <<TableRowSegment(i, sp.prefix, sp.text)>>
        ELSE IF Strip(sp.text) = <<>> THEN <<>>
        ELSE <<TextSegment(i, sp.prefix, sp.text)>>

RECURSIVE ExtractFrom(_, _, _)
ExtractFrom(ls, lts, i) ==
    IF i > Len(ls) THEN <<>>
    ELSE LineSegments(i, ls[i], lts[i]) \o ExtractFrom(ls, lts, i + 1)

\* ------------------------------------------------------------------------
\* Batch coordinator (phases 3 to 5)
\* ------------------------------------------------------------------------

\* text_indices / texts_to_translate entries of one segment, in order
RECURSIVE CellWork(_, _, _)
CellWork(seg_idx, cells, c) ==
    IF c > Len(cells) THEN <<>>
    ELSE (IF cells[c].text # <<>>
          THEN << [seg_idx |-> seg_idx, key |-> "cell", cell_idx |-> c,
                   text |-> cells[c].text] >>
          ELSE <<>>) \o CellWork(seg_idx, cells, c + 1)

SegmentWork(seg_idx, seg) ==
    IF seg.type = "text"
    THEN << [seg_idx |-> seg_idx, key |-> "text", cell_idx |-> 0,
             text |-> seg.protected_text] >>
    ELSE CellWork(seg_idx, seg.cells, 1)

RECURSIVE CollectWork(_, _)
CollectWork(segs, seg_idx) ==
    IF seg_idx > Len(segs) THEN <<>>
    ELSE SegmentWork(seg_idx, segs[seg_idx]) \o CollectWork(segs, seg_idx + 1)

Min(a, b) == IF a <= b THEN a ELSE b

\* for (seg_idx, key), translated in zip(text_indices, translated_texts)
AttachOne(segs, w, translated) ==
    IF w.key = "text"
    THEN [segs EXCEPT ![w.seg_idx].translated = <<translated>>]
    ELSE [segs EXCEPT ![w.seg_idx].cells[w.cell_idx].translated = <<translated>>]

RECURSIVE AttachAll(_, _, _, _)
AttachAll(segs, indices, translated, k) ==
    IF k > Min(Len(indices), Len(translated)) THEN segs
    ELSE AttachAll(AttachOne(segs, indices[k], translated[k]),
                   indices, translated, k + 1)

\* ------------------------------------------------------------------------
\* Reconstructor (phase 6 and the post-passes)
\* ------------------------------------------------------------------------

\* d.get("translated", default)
GetTranslated(d, default) ==
    IF d.translated = <<>> THEN default ELSE d.translated[1]

RebuildCell(cell) ==
    IF cell.text # <<>>
    THEN <<" ">> \o restore_placeholders(GetTranslated(cell, cell.text),
                                         cell.placeholders) \o <<" ">>
    ELSE <<>>

\* Mutant of RebuildCells: an empty cell is left out instead of re-emitted
NonEmptyCell(cell) == cell.text # <<>>

RebuildCellsSkipEmpty(cells) ==
    LET kept == SelectSeq(cells, NonEmptyCell)
    IN  [c \in 1..Len(kept) |-> RebuildCell(kept[c])]

RebuildCells(cells) == [c \in 1..Len(cells) |-> RebuildCell(cells[c])]

EnsureLeadingPipe(s) == IF StartsWith(s, <<"|">>) THEN s ELSE <<"|">> \o s

EnsureTrailingPipe(s) == IF EndsWith(s, <<"|">>) THEN s ELSE s \o <<"|">>

ReconstructTableRow(seg) ==
    EnsureTrailingPipe(EnsureLeadingPipe(JoinWith(RebuildCells(seg.cells), <<"|">>)))

ReconstructText(seg) ==
    seg.prefix \o restore_placeholders(GetTranslated(seg, seg.protected_text),
                                       seg.placeholders)

ReconstructLine(seg) ==
    IF seg.type = "text" THEN ReconstructText(seg) ELSE ReconstructTableRow(seg)

RECURSIVE ReconstructAll(_, _, _)
ReconstructAll(out, segs, k) ==
    IF k > Len(segs) THEN out
    ELSE ReconstructAll([out EXCEPT ![segs[k].line_idx] = ReconstructLine(segs[k])],
                        segs, k + 1)

\* str.lstrip(" \t") / str.rstrip(" \t")
BlankEnd(s, i) == RunEnd(s, i, {" ", TAB})

RECURSIVE BlankStart(_, _)
BlankStart(s, j) ==
    IF j >= 1 /\ s[j] \in {" ", TAB} THEN BlankStart(s, j - 1) ELSE j

\* Mutant of FixBoldSpan: only a leading blank is moved out
FixBoldSpanLeadingOnly(s, i, e) ==
    LET content == SubSeq(s, i + 2, e - 3)
        lead == content # <<>> /\ content[1] \in {" ", TAB}
        prefix == IF lead THEN <<content[1]>> ELSE <<>>
        c1 == IF lead THEN From(content, BlankEnd(content, 1)) ELSE content
    IN  IF c1 = <<>> THEN SubSeq(s, i, e - 1)
        ELSE prefix \o <<"*", "*">> \o c1 \o <<"*", "*">>

\* _fix_bold_span applied to the match s[i..e-1]
FixBoldSpan(s, i, e) ==
    LET content == SubSeq(s, i + 2, e - 3)
        lead == content # <<>> /\ content[1] \in {" ", TAB}
        prefix == IF lead THEN <<content[1]>> ELSE <<>>
        c1 == IF lead THEN From(content, BlankEnd(content, 1)) ELSE content
        trail == c1 # <<>> /\ c1[Len(c1)] \in {" ", TAB}
        suffix == IF trail THEN <<c1[Len(c1)]>> ELSE <<>>
        c2 == IF trail THEN SubSeq(c1, 1, BlankStart(c1, Len(c1))) ELSE c1
    IN  IF c2 = <<>> THEN SubSeq(s, i, e - 1)
        ELSE prefix \o <<"*", "*">> \o c2 \o <<"*", "*">> \o suffix

\* re.sub(r"\*\*(.+?)\*\*", _fix_bold_span, line)
RECURSIVE FixBoldLine(_, _)
FixBoldLine(s, i) ==
    IF i > Len(s) THEN <<>>
    ELSE IF RE_BOLD_TEXT(s, i) # 0
         THEN FixBoldSpan(s, i, RE_BOLD_TEXT(s, i)) \o FixBoldLine(s, RE_BOLD_TEXT(s, i))
         ELSE <<s[i]>> \o FixBoldLine(s, i + 1)

\* ^(\s*[-*+])\*\*  and  ^(\s*\d+\.)\*\*  with re.MULTILINE: a match ends on
\* the line of its marker and only inserts one space there, so the
\* substitution is the same line by line
ListMarkerEnd(s) ==
    LET a == SpaceEnd(s, 1)
    IN  IF a <= Len(s) /\ s[a] \in {"-", "*", "+"} /\ StartsAt(s, <<"*", "*">>, a + 1)
        THEN a + 1 ELSE 0

OrdinalMarkerEnd(s) ==
    LET a == SpaceEnd(s, 1)
        d == DigitsEnd(s, a)
    IN  IF d > a /\ StartsAt(s, <<".">>, d) /\ StartsAt(s, <<"*", "*">>, d + 1)
        THEN d + 1 ELSE 0

InsertSpaceAt(s, e) ==
    IF e = 0 THEN s ELSE SubSeq(s, 1, e - 1) \o <<" ">> \o From(s, e)

FixListMarker(line) ==
    LET l1 == InsertSpaceAt(line, ListMarkerEnd(line))
    IN  InsertSpaceAt(l1, OrdinalMarkerEnd(l1))

\* Everything after "\n".join(output_lines): the two post-passes
PostProcess(joined) ==
    LET ls == SplitOn(joined, LF)
        fixed_lines == [k \in 1..Len(ls) |-> FixBoldLine(ls[k], 1)]
        relined == SplitOn(JoinWith(fixed_lines, <<LF>>), LF)
    IN  JoinWith([k \in 1..Len(relined) |-> FixListMarker(relined[k])], <<LF>>)

\* ------------------------------------------------------------------------
\* Anchor remapper: text_to_anchor and fix_heading_anchors
\* ------------------------------------------------------------------------

\* re.sub(r"`([^`]+)`", r"\1", text)
RECURSIVE StripBackticks(_, _)
StripBackticks(s, i) ==
    IF i > Len(s) THEN <<>>
    ELSE IF RE_INLINE_CODE(s, i) # 0
         THEN SubSeq(s, i + 1, RE_INLINE_CODE(s, i) - 2)
                  \o StripBackticks(s, RE_INLINE_CODE(s, i))
         ELSE <<s[i]>> \o StripBackticks(s, i + 1)

\* re.sub(r"\[([^\]]*)\]\([^)]+\)", r"\1", text)
RECURSIVE LinksToText(_, _)
LinksToText(s, i) ==
    IF i > Len(s) THEN <<>>
    ELSE IF RE_LINK_FULL(s, i) # 0
         THEN SubSeq(s, i + 1, LinkCloseBracket(s, i) - 1)
                  \o LinksToText(s, RE_LINK_FULL(s, i))
         ELSE <<s[i]>> \o LinksToText(s, i + 1)

\* re.sub(r"\*+", "", text)
NotStar(c) == c # "*"

StripStars(s) == SelectSeq(s, NotStar)

\* str.lower()
Lower(s) == [k \in 1..Len(s) |-> LowerChar(s[k])]

\* the class [a-z0-9\s-] of the source: what re.sub(r"[^a-z0-9\s-]", "") keeps
AnchorKeeps(c) == IsAsciiLower(c) \/ IsDigit(c) \/ IsSpace(c) \/ c = "-"

KeepAnchorChars(s) == SelectSeq(s, AnchorKeeps)

\* text.replace(" ", "-")
SpacesToHyphens(s) == [k \in 1..Len(s) |-> IF s[k] = " " THEN "-" ELSE s[k]]

text_to_anchor(text) ==
    SpacesToHyphens(
        KeepAnchorChars(
            Lower(Strip(StripStars(LinksToText(StripBackticks(text, 1), 1))))))

\* heading_re = ^(#{1,6})\s+(.+)$ with re.MULTILINE, on a whole document.
\* The match that starts at i: [end, hashes, text], end = 0 when none.
\* \s+ is greedy and crosses line ends; when the whitespace run reaches the
\* end of the document it backs off to the last character that is not a
\* newline, which (.+) then takes.
AtLineStart(s, i) == i = 1 \/ s[i - 1] = LF

LineEnd(s, i) ==
    LET j == Find(s, <<LF>>, i) IN IF j = 0 THEN Len(s) + 1 ELSE j

HeadingTextStart(s, from) ==
    LET w == SpaceEnd(s, from)
        back == {k \in (from + 1)..Len(s) : s[k] # LF}
    IN  IF w = from THEN 0
        ELSE IF w <= Len(s) THEN w
        ELSE IF back = {} THEN 0
        ELSE CHOOSE k \in back : \A j \in back : j <= k

heading_re(s, i) ==
    LET h == RunEnd(s, i, {"#"}) - i
        t == HeadingTextStart(s, i + h)
    IN  IF AtLineStart(s, i) /\ h >= 1 /\ h <= 6 /\ t # 0
        THEN [end |-> LineEnd(s, t), hashes |-> SubSeq(s, i, i + h - 1),
              text |-> SubSeq(s, t, LineEnd(s, t) - 1)]
        ELSE [end |-> 0, hashes |-> <<>>, text |-> <<>>]

\* heading_re.findall(content)
RECURSIVE FindAllHeadings(_, _)
FindAllHeadings(s, i) ==
    IF i > Len(s) THEN <<>>
    ELSE IF heading_re(s, i).end # 0
         THEN << [hashes |-> heading_re(s, i).hashes,
                  text |-> heading_re(s, i).text] >>
                  \o FindAllHeadings(s, heading_re(s, i).end)
         ELSE FindAllHeadings(s, i + 1)

\* Mutant of HeadingCountsDiffer: the safety check is gone
HeadingCountsNeverDiffer(src, tgt) == FALSE

\* if len(src_headings) != len(tgt_headings)
HeadingCountsDiffer(src, tgt) == Len(src) # Len(tgt)

\* anchor_map[src_anchor] = tgt_anchor on a dict kept as a sequence of
\* [src, tgt] in insertion order: a key seen before keeps its place
MapSet(map, src, tgt) ==
    IF \E k \in 1..Len(map) : map[k].src = src
    THEN [k \in 1..Len(map) |->
             IF map[k].src = src THEN [src |-> src, tgt |-> tgt] ELSE map[k]]
    ELSE Append(map, [src |-> src, tgt |-> tgt])

\* One iteration of the zip loop
AnchorMapStep(map, src_anchor, tgt_anchor) ==
    IF src_anchor # <<>> /\ tgt_anchor # <<>> /\ src_anchor # tgt_anchor
    THEN MapSet(map, src_anchor, tgt_anchor)
    ELSE map

RECURSIVE BuildMap(_, _, _, _)
BuildMap(map, srcs, tgts, k) ==
    IF k > Min(Len(srcs), Len(tgts)) THEN map
    ELSE BuildMap(AnchorMapStep(map, srcs[k], tgts[k]), srcs, tgts, k + 1)

\* sorted(anchor_map.items(), key=lambda x: -len(x[0])), stable
RECURSIVE InsertBySrcLen(_, _)
InsertBySrcLen(sorted, item) ==
    IF sorted = <<>> THEN <<item>>
    ELSE IF Len(Head(sorted).src) >= Len(item.src)
         THEN <<Head(sorted)>> \o InsertBySrcLen(Tail(sorted), item)
         ELSE <<item>> \o sorted

RECURSIVE SortedBySrcLen(_)
SortedBySrcLen(map) ==
    IF map = <<>> THEN <<>>
    ELSE InsertBySrcLen(SortedBySrcLen(SubSeq(map, 1, Len(map) - 1)),
                        map[Len(map)])

\* f"](#{anchor})"
FragmentLink(anchor) == <<"]", "(", "#">> \o anchor \o <<")">>

\* result.replace(f"](#{src_anchor})", f"](#{tgt_anchor})")
RewriteOne(content_, item) ==
    Replace(content_, FragmentLink(item.src), FragmentLink(item.tgt))

\* ------------------------------------------------------------------------
\* validate_translation
\* ------------------------------------------------------------------------

\* str.count(sub): occurrences that do not overlap, left to right
RECURSIVE CountSub(_, _, _)
CountSub(s, sub, i) ==
    IF Find(s, sub, i) = 0 THEN 0
    ELSE 1 + CountSub(s, sub, Find(s, sub, i) + Len(sub))

\* ^#{1,6}\s with re.MULTILINE: the position after the match at i, else 0
HeadingMark(s, i) ==
    LET h == RunEnd(s, i, {"#"}) - i
    IN  IF /\ AtLineStart(s, i)
           /\ h >= 1 /\ h <= 6
           /\ i + h <= Len(s) /\ IsSpace(s[i + h])
        THEN i + h + 1 ELSE 0

\* len(re.findall(r"^#{1,6}\s", text, re.MULTILINE))
RECURSIVE CountHeadingMarks(_, _)
CountHeadingMarks(s, i) ==
    IF i > Len(s) THEN 0
    ELSE IF HeadingMark(s, i) # 0 THEN 1 + CountHeadingMarks(s, HeadingMark(s, i))
    ELSE CountHeadingMarks(s, i + 1)

\* len(RE_LINK_FULL.findall(text))
RECURSIVE CountLinks(_, _)
CountLinks(s, i) ==
    IF i > Len(s) THEN 0
    ELSE IF RE_LINK_FULL(s, i) # 0 THEN 1 + CountLinks(s, RE_LINK_FULL(s, i))
    ELSE CountLinks(s, i + 1)

\* the leftover placeholders: is any token left
HasLeftover(s) == \E i \in 1..Len(s) : ph_re(s, i) # 0

\* tgt_lines / src_lines outside [0.8, 1.2], for src_lines > 0
RatioOutOfBand(src_lines, tgt_lines) ==
    src_lines > 0 /\ (5 * tgt_lines < 4 * src_lines \/ 5 * tgt_lines > 6 * src_lines)

\* One appended message, named by what it reports
ErrorIf(cond, what) == IF cond THEN <<what>> ELSE <<>>

validate_translation(source, translated) ==
    ErrorIf(CountSub(source, FENCE, 1) # CountSub(translated, FENCE, 1),
            "code block count mismatch")
    \o ErrorIf(CountHeadingMarks(source, 1) # CountHeadingMarks(translated, 1),
               "heading count mismatch")
    \o ErrorIf(CountLinks(source, 1) # CountLinks(translated, 1),
               "link count mismatch")
    \o ErrorIf(RatioOutOfBand(CountChar(source, LF), CountChar(translated, LF)),
               "line count ratio")
    \o ErrorIf(HasLeftover(translated), "unrestored placeholders")

\* ------------------------------------------------------------------------
\* The translation capability (translator.translate_batch), as the engine
\* sees it: any list of strings may come back.  The behaviours explored:
\*   identity  every text unchanged
\*   reword    every text changed, tokens kept
\*   newline   every text comes back with a line break in it
\*   pipe      every text comes back with a pipe in it
\*   drop      one string too few
\*   extra     one string too many
\* ------------------------------------------------------------------------

TranslatorKinds == {"identity", "reword", "newline", "pipe", "drop", "extra"}

TranslateText(kind, t) ==
    CASE kind = "reword" -> t \o <<"x">>
      [] kind = "newline" -> t \o <<LF, "x">>
      [] kind = "pipe" -> t \o <<"|">>
      [] OTHER -> t

translate_batch(kind, texts) ==
    LET each == [k \in 1..Len(texts) |-> TranslateText(kind, texts[k])]
    IN  CASE kind = "drop" -> SubSeq(each, 1, Len(each) - 1)
          [] kind = "extra" -> Append(each, <<"x">>)
          [] OTHER -> each

\* ------------------------------------------------------------------------
\* Input documents
\* ------------------------------------------------------------------------

MaxLines == 3

DocLines ==
    { <<BT, BT, BT>>,
      <<>>,
      <<"*", "*", " ", "a", "*", "*">>,
      <<"-", "*", "*", "a", "*", "*">>,
      <<"|", " ", "a", "b", " ", "|", "|", " ", "c", "d", " ", "|">>,
      <<"#", " ", "|", " ", "a", "b", " ", "|", " ", " ", "|", " ", "c", " ", "|">>,
      <<"|", "-", "-", "|">>,
      <<"-", " ", "[", "a", "]", "(", "b", ")">>,
      <<"#", " ">>,
      <<" ", BT, BT, BT, "x">>,
      <<"=", ">", " ", "a">>,
      <<">", " ", "a", " ", BT, "b", BT>> }

RECURSIVE DocsOfLen(_)
DocsOfLen(n) ==
    IF n = 0 THEN {<<>>}
    ELSE {Append(d, l) : d \in DocsOfLen(n - 1), l \in DocLines}

Documents == UNION {DocsOfLen(n) : n \in 1..MaxLines}

\* ------------------------------------------------------------------------
\* State
\* ------------------------------------------------------------------------

VARIABLES
    pc,                  \* the phase about to run
    content,             \* source_path.read_text()
    lines,               \* content.split("\n")
    in_code_block,       \* phase 1 flag
    line_types,          \* phase 1 result, one per line classified so far
    segments,            \* phase 2 result
    texts_to_translate,  \* phase 3
    text_indices,        \* phase 3
    translated_texts,    \* phase 4
    output_lines,        \* phase 6
    result,              \* the returned string
    text,                \* protect_inline_elements: the text handed in
    protected,           \* the text with placeholders in it
    placeholders,        \* the dict, in insertion order
    restored,            \* what restore_placeholders returns
    source_content,      \* fix_heading_anchors: the source document
    translated_content,  \* the translated document
    src_headings,        \* heading_re.findall(source_content)
    tgt_headings,        \* heading_re.findall(translated_content)
    src_anchors,         \* text_to_anchor of each source heading, in order
    tgt_anchors,         \* text_to_anchor of each translated heading
    anchor_map,          \* the dict, in insertion order
    pending,             \* sorted items the replace loop has yet to apply
    anchored,            \* the result variable of fix_heading_anchors
    bold_line,           \* bold post-pass: one line of the joined result
    bold_fixed,          \* the line after re.sub with _fix_bold_span
    errors,              \* validate_translation: the returned list
    backend,             \* _call_api: which translator class
    attempt,             \* the loop variable
    responses,           \* what each request so far came back with
    waits,               \* time slept after each attempt, in tenths of a second
    returned,            \* what _call_api returned
    force,               \* main: args.force
    dry_run,             \* args.dry_run
    doc_idx,             \* the document the loop is at
    doc_errors,          \* errors, as validate_translation returned it
    all_errors,          \* the warnings collected over the run
    written,             \* targets written by write_text
    cache_data,          \* names whose record cache.update has set
    cache_saved,         \* cache.save() has run
    log,                 \* what happened to each document, in order
    translated_count,
    skipped_count,
    batch_texts,         \* DeepLTranslator.translate_batch: texts
    batch_pos,           \* the text the for loop is at
    batch,
    batch_size,
    api_calls,           \* the batches handed to _call_api, in order
    api_replies,         \* how many of these calls have returned
    all_faithful,        \* every reply had one string per input
    results

fileVars == <<content, lines, in_code_block, line_types, segments,
              texts_to_translate, text_indices, translated_texts,
              output_lines, result>>

protectVars == <<text, protected, placeholders, restored>>

anchorVars == <<source_content, translated_content, src_headings,
                tgt_headings, src_anchors, tgt_anchors, anchor_map, pending,
                anchored>>

boldVars == <<bold_line, bold_fixed>>

validateVars == <<errors>>

retryVars == <<backend, attempt, responses, waits, returned>>

mainVars == <<force, dry_run, doc_idx, doc_errors, all_errors, written,
              cache_data, cache_saved, log, translated_count, skipped_count>>

\* The variables of the parts modelled on their own
batchVars == <<batch_texts, batch_pos, batch, batch_size, api_calls,
               api_replies, all_faithful, results>>

laterVars == <<boldVars, validateVars, retryVars, mainVars, batchVars>>

vars == <<pc, fileVars, protectVars, anchorVars, laterVars>>

FileIdle ==
    /\ content = <<>>
    /\ lines = <<>>
    /\ in_code_block = FALSE
    /\ line_types = <<>>
    /\ segments = <<>>
    /\ texts_to_translate = <<>>
    /\ text_indices = <<>>
    /\ translated_texts = <<>>
    /\ output_lines = <<>>
    /\ result = <<>>

ProtectIdle ==
    /\ text = <<>>
    /\ protected = <<>>
    /\ placeholders = <<>>
    /\ restored = <<>>

AnchorIdle ==
    /\ source_content = <<>>
    /\ translated_content = <<>>
    /\ src_headings = <<>>
    /\ tgt_headings = <<>>
    /\ src_anchors = <<>>
    /\ tgt_anchors = <<>>
    /\ anchor_map = <<>>
    /\ pending = <<>>
    /\ anchored = <<>>

BoldIdle ==
    /\ bold_line = <<>>
    /\ bold_fixed = <<>>

ValidateIdle == errors = <<>>

RetryIdle ==
    /\ backend = "none"
    /\ attempt = 0
    /\ responses = <<>>
    /\ waits = <<>>
    /\ returned = "nothing"

MainIdle ==
    /\ force = FALSE
    /\ dry_run = FALSE
    /\ doc_idx = 0
    /\ doc_errors = <<>>
    /\ all_errors = <<>>
    /\ written = {}
    /\ cache_data = {}
    /\ cache_saved = FALSE
    /\ log = <<>>
    /\ translated_count = 0
    /\ skipped_count = 0

BatchIdle ==
    /\ batch_texts = <<>>
    /\ batch_pos = 0
    /\ batch = <<>>
    /\ batch_size = 0
    /\ api_calls = <<>>
    /\ api_replies = 0
    /\ all_faithful = TRUE
    /\ results = <<>>

LaterIdle == BoldIdle /\ ValidateIdle /\ RetryIdle /\ MainIdle /\ BatchIdle

Init ==
    /\ pc = "read"
    /\ content \in {JoinWith(d, <<LF>>) : d \in Documents}
    /\ lines = <<>>
    /\ in_code_block = FALSE
    /\ line_types = <<>>
    /\ segments = <<>>
    /\ texts_to_translate = <<>>
    /\ text_indices = <<>>
    /\ translated_texts = <<>>
    /\ output_lines = <<>>
    /\ result = <<>>
    /\ ProtectIdle
    /\ AnchorIdle
    /\ LaterIdle

\* lines = content.split("\n")
ReadFile ==
    /\ pc = "read"
    /\ lines' = SplitOn(content, LF)
    /\ pc' = "classify"
    /\ UNCHANGED <<content, in_code_block, line_types, segments,
                   texts_to_translate, text_indices, translated_texts,
                   output_lines, result>>
    /\ UNCHANGED <<protectVars, anchorVars, laterVars>>

\* Phase 1, one iteration: the line after those classified so far
ClassifyLine ==
    /\ pc = "classify"
    /\ Len(line_types) < Len(lines)
    /\ LET line == lines[Len(line_types) + 1]
       IN  /\ line_types' = Append(line_types, ClassifyType(line, in_code_block))
           /\ in_code_block' = ClassifyFlag(line, in_code_block)
    /\ pc' = IF Len(line_types) + 1 = Len(lines) THEN "extract" ELSE "classify"
    /\ UNCHANGED <<content, lines, segments, texts_to_translate, text_indices,
                   translated_texts, output_lines, result>>
    /\ UNCHANGED <<protectVars, anchorVars, laterVars>>

\* Phase 2
ExtractSegments ==
    /\ pc = "extract"
    /\ segments' = ExtractFrom(lines, line_types, 1)
    /\ pc' = "collect"
    /\ UNCHANGED <<content, lines, in_code_block, line_types,
                   texts_to_translate, text_indices, translated_texts,
                   output_lines, result>>
    /\ UNCHANGED <<protectVars, anchorVars, laterVars>>

\* Phase 3
CollectTexts ==
    /\ pc = "collect"
    /\ LET work == CollectWork(segments, 1)
       IN  /\ texts_to_translate' = [k \in 1..Len(work) |-> work[k].text]
           /\ text_indices' =
                  [k \in 1..Len(work) |->
                      [seg_idx |-> work[k].seg_idx, key |-> work[k].key,
                       cell_idx |-> work[k].cell_idx]]
    /\ pc' = "translate"
    /\ UNCHANGED <<content, lines, in_code_block, line_types, segments,
                   translated_texts, output_lines, result>>
    /\ UNCHANGED <<protectVars, anchorVars, laterVars>>

\* Phase 4: the call is made only for a non-empty work list
Translate ==
    /\ pc = "translate"
    /\ \/ /\ texts_to_translate # <<>>
          /\ \E kind \in TranslatorKinds :
                 translated_texts' = translate_batch(kind, texts_to_translate)
       \/ /\ texts_to_translate = <<>>
          /\ translated_texts' = <<>>
    /\ pc' = "map"
    /\ UNCHANGED <<content, lines, in_code_block, line_types, segments,
                   texts_to_translate, text_indices, output_lines, result>>
    /\ UNCHANGED <<protectVars, anchorVars, laterVars>>

\* Phase 5: zip stops at the shorter list
MapBack ==
    /\ pc = "map"
    /\ segments' = AttachAll(segments, text_indices, translated_texts, 1)
    /\ pc' = "reconstruct"
    /\ UNCHANGED <<content, lines, in_code_block, line_types,
                   texts_to_translate, text_indices, translated_texts,
                   output_lines, result>>
    /\ UNCHANGED <<protectVars, anchorVars, laterVars>>

\* Phase 6
Reconstruct ==
    /\ pc = "reconstruct"
    /\ output_lines' = ReconstructAll(lines, segments, 1)
    /\ pc' = "postprocess"
    /\ UNCHANGED <<content, lines, in_code_block, line_types, segments,
                   texts_to_translate, text_indices, translated_texts, result>>
    /\ UNCHANGED <<protectVars, anchorVars, laterVars>>

\* result = "\n".join(output_lines), the post-passes, return
Finish ==
    /\ pc = "postprocess"
    /\ result' = PostProcess(JoinWith(output_lines, <<LF>>))
    /\ pc' = "done"
    /\ UNCHANGED <<content, lines, in_code_block, line_types, segments,
                   texts_to_translate, text_indices, translated_texts,
                   output_lines>>
    /\ UNCHANGED <<protectVars, anchorVars, laterVars>>

notValidateVars == <<fileVars, protectVars, anchorVars, boldVars, retryVars, mainVars,
                   batchVars>>

\* errors = validate_translation(source_content, translated, en_name), on
\* what translate_markdown_file returned
Validate ==
    /\ pc = "done"
    /\ errors' = validate_translation(content, result)
    /\ pc' = "validated"
    /\ UNCHANGED notValidateVars

Next ==
    \/ ReadFile
    \/ ClassifyLine
    \/ ExtractSegments
    \/ CollectTexts
    \/ Translate
    \/ MapBack
    \/ Reconstruct
    \/ Finish
    \/ Validate

Spec == Init /\ [][Next]_vars

\* ------------------------------------------------------------------------
\* protect_inline_elements followed by restore_placeholders, as phases 2
\* and 6 apply them to one text when the translation leaves it unchanged
\* ------------------------------------------------------------------------

MaxFragments == 3

ManySpans == 11

ProtectFragments ==
    { <<"a">>,
      <<BT>>,
      <<"[", "a", "]", "(", "b", ")">>,
      <<"*", "*">>,
      <<",", " ">>,
      <<")">>,
      <<" ">>,
      <<PH_PREFIX, "0", PH_SUFFIX>> }

RECURSIVE FragmentTexts(_)
FragmentTexts(n) ==
    IF n = 0 THEN {<<>>}
    ELSE {t \o f : t \in FragmentTexts(n - 1), f \in ProtectFragments}

RECURSIVE CodeSpans(_)
CodeSpans(n) ==
    IF n = 0 THEN <<>> ELSE <<BT, "a", BT, " ">> \o CodeSpans(n - 1)

ProtectTexts ==
    {lead \o t : lead \in {<<>>, CodeSpans(ManySpans)},
                 t \in UNION {FragmentTexts(n) : n \in 0..MaxFragments}}

InitProtect ==
    /\ pc = "protect"
    /\ text \in ProtectTexts
    /\ protected = <<>>
    /\ placeholders = <<>>
    /\ restored = <<>>
    /\ FileIdle
    /\ AnchorIdle
    /\ LaterIdle

\* protected, placeholders = protect_inline_elements(text)
Protect ==
    /\ pc = "protect"
    /\ protected' = protect_inline_elements(text).out
    /\ placeholders' = protect_inline_elements(text).placeholders
    /\ pc' = "restore"
    /\ UNCHANGED <<text, restored, fileVars, anchorVars, laterVars>>

\* restore_placeholders(protected, placeholders)
Restore ==
    /\ pc = "restore"
    /\ restored' = restore_placeholders(protected, placeholders)
    /\ pc' = "restored"
    /\ UNCHANGED <<text, protected, placeholders, fileVars, anchorVars, laterVars>>

NextProtect ==
    \/ Protect
    \/ Restore

SpecProtect == InitProtect /\ [][NextProtect]_vars

\* ------------------------------------------------------------------------
\* restore_placeholders on a text the translation backend has changed: the
\* map is the one protect_inline_elements made for a source text, the
\* translated text is anything the backend may return
\* ------------------------------------------------------------------------

MaxReturnedFragments == 4

ReturnedFragments ==
    { <<PH_PREFIX, "0", PH_SUFFIX>>,
      <<PH_PREFIX, "2", PH_SUFFIX>>,
      <<PH_PREFIX, "5", PH_SUFFIX>>,
      <<PH_PREFIX>>,
      <<PH_SUFFIX>>,
      <<"0">>,
      <<"a">>,
      <<",", " ">> }

RECURSIVE ReturnedTexts(_)
ReturnedTexts(n) ==
    IF n = 0 THEN {<<>>}
    ELSE {t \o f : t \in ReturnedTexts(n - 1), f \in ReturnedFragments}

ProtectedSources ==
    { <<"a">>,
      <<BT, "[", "a", "]", "(", "b", ")", BT>>,
      <<"[", "a", "]", "(", "b", ")", " ", BT, "a", BT>> }

InitRestore ==
    /\ pc = "restore"
    /\ text \in ProtectedSources
    /\ placeholders = protect_inline_elements(text).placeholders
    /\ protected \in UNION {ReturnedTexts(n) : n \in 0..MaxReturnedFragments}
    /\ restored = <<>>
    /\ FileIdle
    /\ AnchorIdle
    /\ LaterIdle

NextRestore == Restore

SpecRestore == InitRestore /\ [][NextRestore]_vars

\* ------------------------------------------------------------------------
\* fix_heading_anchors(source_content, translated_content)
\* ------------------------------------------------------------------------

MaxHeadings == 2

SourceHeadingLines ==
    { <<"#", " ", "a">>,
      <<"#", "#", " ", "b">>,
      <<"#", " ", INV_QUESTION, "Q", "u", E_ACUTE, " ", "e", "s", "?">> }

TranslatedHeadingLines ==
    { <<"#", " ", "a">>,
      <<"#", "#", " ", "b">>,
      <<"#", " ", "c">>,
      <<"#", " ", "*", "*", "a", "*", "*", " ", BT, "b", BT>> }

LinkLines ==
    { <<"[", "x", "]", "(", "#", "a", ")">>,
      <<"[", "x", "]", "(", "#", "b", ")", " ",
        "[", "y", "]", "(", "#", "a", ")">>,
      <<"[", "x", "]", "(", "#", "q", ")">>,
      <<"[", "x", "]", "(", "#", "q", "u", "-", "e", "s", ")">> }

RECURSIVE LinesOfLen(_, _)
LinesOfLen(n, from) ==
    IF n = 0 THEN {<<>>}
    ELSE {Append(d, l) : d \in LinesOfLen(n - 1, from), l \in from}

HeadingDocs(from) == UNION {LinesOfLen(n, from) : n \in 0..MaxHeadings}

InitAnchor ==
    /\ pc = "headings"
    /\ source_content \in
           {JoinWith(d, <<LF>>) : d \in HeadingDocs(SourceHeadingLines)}
    /\ translated_content \in
           {JoinWith(Append(d, l), <<LF>>) :
                d \in HeadingDocs(TranslatedHeadingLines), l \in LinkLines}
    /\ src_headings = <<>>
    /\ tgt_headings = <<>>
    /\ src_anchors = <<>>
    /\ tgt_anchors = <<>>
    /\ anchor_map = <<>>
    /\ pending = <<>>
    /\ anchored = <<>>
    /\ FileIdle
    /\ ProtectIdle
    /\ LaterIdle

\* The two findall calls and the safety check on the counts
FindHeadings ==
    /\ pc = "headings"
    /\ src_headings' = FindAllHeadings(source_content, 1)
    /\ tgt_headings' = FindAllHeadings(translated_content, 1)
    /\ IF HeadingCountsDiffer(src_headings', tgt_headings')
       THEN /\ anchored' = translated_content
            /\ pc' = "returned"
       ELSE /\ anchored' = anchored
            /\ pc' = "build"
    /\ UNCHANGED <<source_content, translated_content, src_anchors,
                   tgt_anchors, anchor_map, pending, fileVars, protectVars, laterVars>>

\* The zip loop that fills anchor_map, then result = translated_content and
\* the sort of the items
BuildAnchorMap ==
    /\ pc = "build"
    /\ LET n == Min(Len(src_headings), Len(tgt_headings))
           srcs == [k \in 1..n |-> text_to_anchor(src_headings[k].text)]
           tgts == [k \in 1..n |-> text_to_anchor(tgt_headings[k].text)]
       IN  /\ src_anchors' = srcs
           /\ tgt_anchors' = tgts
           /\ anchor_map' = BuildMap(<<>>, srcs, tgts, 1)
           /\ pending' = SortedBySrcLen(BuildMap(<<>>, srcs, tgts, 1))
    /\ anchored' = translated_content
    /\ pc' = "rewrite"
    /\ UNCHANGED <<source_content, translated_content, src_headings,
                   tgt_headings, fileVars, protectVars, laterVars>>

\* One iteration of the replace loop
RewriteLinks ==
    /\ pc = "rewrite"
    /\ pending # <<>>
    /\ anchored' = RewriteOne(anchored, Head(pending))
    /\ pending' = Tail(pending)
    /\ UNCHANGED <<pc, source_content, translated_content, src_headings,
                   tgt_headings, src_anchors, tgt_anchors, anchor_map,
                   fileVars, protectVars, laterVars>>

\* return result
ReturnAnchored ==
    /\ pc = "rewrite"
    /\ pending = <<>>
    /\ pc' = "returned"
    /\ UNCHANGED <<anchorVars, fileVars, protectVars, laterVars>>

NextAnchor ==
    \/ FindHeadings
    \/ BuildAnchorMap
    \/ RewriteLinks
    \/ ReturnAnchored

SpecAnchor == InitAnchor /\ [][NextAnchor]_vars

\* ------------------------------------------------------------------------
\* The emphasis post-pass on one line: re.sub with _fix_bold_span
\* ------------------------------------------------------------------------

MaxBoldFragments == 6

BoldFragments == { <<"*", "*">>, <<"*">>, <<" ">>, <<TAB>>, <<"a">> }

RECURSIVE BoldTexts(_)
BoldTexts(n) ==
    IF n = 0 THEN {<<>>}
    ELSE {t \o f : t \in BoldTexts(n - 1), f \in BoldFragments}

BoldLines == UNION {BoldTexts(n) : n \in 0..MaxBoldFragments}

notBoldVars == <<fileVars, protectVars, anchorVars, validateVars, retryVars, mainVars,
                   batchVars>>

InitBold ==
    /\ pc = "bold"
    /\ bold_line \in BoldLines
    /\ bold_fixed = <<>>
    /\ FileIdle
    /\ ProtectIdle
    /\ AnchorIdle
    /\ ValidateIdle
    /\ RetryIdle
    /\ MainIdle
    /\ BatchIdle

\* line = re.sub(r"\*\*(.+?)\*\*", _fix_bold_span, line)
FixBold ==
    /\ pc = "bold"
    /\ bold_fixed' = FixBoldLine(bold_line, 1)
    /\ pc' = "bold_fixed"
    /\ UNCHANGED <<bold_line, notBoldVars>>

NextBold == FixBold

SpecBold == InitBold /\ [][NextBold]_vars

\* ------------------------------------------------------------------------
\* _call_api of the three translator classes: the retry loop
\* ------------------------------------------------------------------------

RETRY_ATTEMPTS == 3

RETRY_DELAY == 3

Backends == {"deepl", "google", "openai"}

\* wait = RETRY_DELAY * attempt (DeepL), RETRY_DELAY * attempt * 2 (the
\* others), in seconds
RateLimitWait(b, n) ==
    IF b = "deepl" THEN RETRY_DELAY * n ELSE RETRY_DELAY * n * 2

\* time.sleep(RETRY_DELAY * attempt) of the two error branches
ErrorWait(n) == RETRY_DELAY * n

\* the time.sleep at the end of the loop body, in tenths of a second
LoopPause(b) ==
    CASE b = "google" -> 5
      [] b = "openai" -> 3
      [] OTHER -> 0

\* The statuses that take the final else branch
OtherStatuses(b) == IF b = "deepl" THEN {"500"} ELSE {"456", "500"}

notRetryVars == <<fileVars, protectVars, anchorVars, boldVars, validateVars, mainVars,
                 batchVars>>

InitRetry ==
    /\ pc = "call"
    /\ backend \in Backends
    /\ attempt = 1
    /\ responses = <<>>
    /\ waits = <<>>
    /\ returned = "nothing"
    /\ FileIdle
    /\ ProtectIdle
    /\ AnchorIdle
    /\ BoldIdle
    /\ ValidateIdle
    /\ MainIdle
    /\ BatchIdle

\* resp.status_code == 200: the translation is returned
Success ==
    /\ pc = "call"
    /\ responses' = Append(responses, "200")
    /\ returned' = "translation"
    /\ pc' = "returned"
    /\ UNCHANGED <<backend, attempt, waits, notRetryVars>>

\* resp.status_code == 456 (DeepL only): sys.exit(1)
QuotaExceeded ==
    /\ pc = "call"
    /\ backend = "deepl"
    /\ responses' = Append(responses, "456")
    /\ pc' = "exited"
    /\ UNCHANGED <<backend, attempt, waits, returned, notRetryVars>>

\* resp.status_code == 429: sleep and go round again; after the last
\* attempt the loop ends and the function returns its argument
RateLimited ==
    /\ pc = "call"
    /\ responses' = Append(responses, "429")
    /\ waits' = Append(waits, 10 * RateLimitWait(backend, attempt) + LoopPause(backend))
    /\ IF attempt = RETRY_ATTEMPTS
       THEN /\ returned' = "input"
            /\ pc' = "returned"
            /\ attempt' = attempt
       ELSE /\ attempt' = attempt + 1
            /\ UNCHANGED <<pc, returned>>
    /\ UNCHANGED <<backend, notRetryVars>>

\* The else branch (another status) and the except branch: exit on the
\* last attempt, otherwise sleep and go round again
Failed(what) ==
    /\ pc = "call"
    /\ responses' = Append(responses, what)
    /\ IF attempt = RETRY_ATTEMPTS
       THEN /\ pc' = "exited"
            /\ UNCHANGED <<attempt, waits>>
       ELSE /\ attempt' = attempt + 1
            /\ waits' = Append(waits, 10 * ErrorWait(attempt) + LoopPause(backend))
            /\ pc' = pc
    /\ UNCHANGED <<backend, returned, notRetryVars>>

OtherStatus == \E status \in OtherStatuses(backend) : Failed(status)

RequestException == Failed("exception")

NextRetry ==
    \/ Success
    \/ QuotaExceeded
    \/ RateLimited
    \/ OtherStatus
    \/ RequestException

SpecRetry == InitRetry /\ [][NextRetry]_vars

\* ------------------------------------------------------------------------
\* main: the loop over the documents, then README.md
\* ------------------------------------------------------------------------

\* sorted(FILENAME_MAP.items()), then the README
Docs == <<"01-a.md", "02-b.md", "README.md">>

\* What validate_translation may return, as far as main looks at it
ValidationResults == {<<>>, <<"warning">>}

\* Mutant of StepAfterValidation: warnings send the loop to the next document
StepAfterValidationBlocking(errs) ==
    IF errs = <<>> THEN "write" ELSE "cache_update"

\* After validate_translation: `if errors:` prints and collects, then the
\* write follows on either branch
StepAfterValidation(errs) == "write"

notMainVars == <<fileVars, protectVars, anchorVars, boldVars, validateVars,
                 retryVars, batchVars>>

InitMain ==
    /\ pc = "next_doc"
    /\ force \in BOOLEAN
    /\ dry_run \in BOOLEAN
    /\ doc_idx = 1
    /\ doc_errors = <<>>
    /\ all_errors = <<>>
    /\ written = {}
    /\ cache_data = {}
    /\ cache_saved = FALSE
    /\ log = <<>>
    /\ translated_count = 0
    /\ skipped_count = 0
    /\ FileIdle
    /\ ProtectIdle
    /\ AnchorIdle
    /\ BoldIdle
    /\ ValidateIdle
    /\ RetryIdle
    /\ BatchIdle

AtDoc == pc = "next_doc" /\ doc_idx <= Len(Docs)

\* if not source_path.exists(): continue
SkipMissing ==
    /\ AtDoc
    /\ log' = Append(log, <<Docs[doc_idx], "missing">>)
    /\ doc_idx' = doc_idx + 1
    /\ UNCHANGED <<pc, force, dry_run, doc_errors, all_errors, written,
                   cache_data, cache_saved, translated_count, skipped_count,
                   notMainVars>>

\* if not args.force and not cache.is_changed(source_path): skipped
SkipUnchanged ==
    /\ AtDoc
    /\ ~force
    /\ log' = Append(log, <<Docs[doc_idx], "unchanged">>)
    /\ skipped_count' = skipped_count + 1
    /\ doc_idx' = doc_idx + 1
    /\ UNCHANGED <<pc, force, dry_run, doc_errors, all_errors, written,
                   cache_data, cache_saved, translated_count, notMainVars>>

\* if args.dry_run: continue
DryRun ==
    /\ AtDoc
    /\ dry_run
    /\ log' = Append(log, <<Docs[doc_idx], "would translate">>)
    /\ doc_idx' = doc_idx + 1
    /\ UNCHANGED <<pc, force, dry_run, doc_errors, all_errors, written,
                   cache_data, cache_saved, translated_count, skipped_count,
                   notMainVars>>

\* The pipeline of one document up to and including the validation and the
\* `if errors:` block
RunPipeline ==
    /\ AtDoc
    /\ ~dry_run
    /\ \E errs \in ValidationResults :
           /\ doc_errors' = errs
           /\ all_errors' = all_errors \o errs
           /\ pc' = StepAfterValidation(errs)
    /\ log' = Append(log, <<Docs[doc_idx], "validated">>)
    /\ UNCHANGED <<force, dry_run, doc_idx, written, cache_data, cache_saved,
                   translated_count, skipped_count, notMainVars>>

\* sys.exit(1) inside translate_markdown_file (from _call_api)
PipelineExits ==
    /\ AtDoc
    /\ ~dry_run
    /\ log' = Append(log, <<Docs[doc_idx], "exit">>)
    /\ pc' = "exited"
    /\ UNCHANGED <<force, dry_run, doc_idx, doc_errors, all_errors, written,
                   cache_data, cache_saved, translated_count, skipped_count,
                   notMainVars>>

\* target_path.write_text(translated)
WriteOutput ==
    /\ pc = "write"
    /\ written' = written \cup {Docs[doc_idx]}
    /\ log' = Append(log, <<Docs[doc_idx], "written">>)
    /\ pc' = "cache_update"
    /\ UNCHANGED <<force, dry_run, doc_idx, doc_errors, all_errors,
                   cache_data, cache_saved, translated_count, skipped_count,
                   notMainVars>>

\* cache.update(source_path); translated_count += 1; on to the next one
UpdateCache ==
    /\ pc = "cache_update"
    /\ cache_data' = cache_data \cup {Docs[doc_idx]}
    /\ log' = Append(log, <<Docs[doc_idx], "cached">>)
    /\ translated_count' = translated_count + 1
    /\ doc_idx' = doc_idx + 1
    /\ pc' = "next_doc"
    /\ UNCHANGED <<force, dry_run, doc_errors, all_errors, written,
                   cache_saved, skipped_count, notMainVars>>

\* if not args.dry_run: cache.save(); the summary
Summary ==
    /\ pc = "next_doc"
    /\ doc_idx > Len(Docs)
    /\ cache_saved' = ~dry_run
    /\ pc' = "summary"
    /\ UNCHANGED <<force, dry_run, doc_idx, doc_errors, all_errors, written,
                   cache_data, log, translated_count, skipped_count,
                   notMainVars>>

NextMain ==
    \/ SkipMissing
    \/ SkipUnchanged
    \/ DryRun
    \/ RunPipeline
    \/ PipelineExits
    \/ WriteOutput
    \/ UpdateCache
    \/ Summary

SpecMain == InitMain /\ [][NextMain]_vars

\* ------------------------------------------------------------------------
\* DeepLTranslator.translate_batch: the grouping of the texts into calls
\* ------------------------------------------------------------------------

MAX_BATCH_CHARS == 40000

MaxTexts == 3

\* len(text) of the texts handed in: empty, two that fit together exactly,
\* one that no longer fits with them, one over the limit on its own
TextLengths == {0, 20000, 20001, 40001}

\* A work list: the texts told apart by their position
WorkList(lens) == [k \in 1..Len(lens) |-> [id |-> k, len |-> lens[k]]]

WorkLists == {WorkList(lens) : lens \in UNION {[1..n -> TextLengths] : n \in 0..MaxTexts}}

\* Mutant of MustFlush: without `and batch`
MustFlushEvenIfEmpty(b, size, t) == size + t.len > MAX_BATCH_CHARS

\* if batch_size + len(text) > MAX_BATCH_CHARS and batch:
MustFlush(b, size, t) == size + t.len > MAX_BATCH_CHARS /\ b # <<>>

\* One translated string per text of the call
FullReply(b) == [k \in 1..Len(b) |-> <<"en", b[k].id>>]

\* What _call_api may hand back: data["translations"] is the service's own
\* list, so it may be shorter than the call
Replies(b) ==
    {FullReply(b)} \cup
    (IF b = <<>> THEN {} ELSE {SubSeq(FullReply(b), 1, Len(b) - 1)})

notBatchVars == <<fileVars, protectVars, anchorVars, boldVars, validateVars,
                  retryVars, mainVars>>

InitBatch ==
    /\ pc = "batch_start"
    /\ batch_texts \in WorkLists
    /\ batch_pos = 1
    /\ batch = <<>>
    /\ batch_size = 0
    /\ api_calls = <<>>
    /\ api_replies = 0
    /\ all_faithful = TRUE
    /\ results = <<>>
    /\ FileIdle
    /\ ProtectIdle
    /\ AnchorIdle
    /\ BoldIdle
    /\ ValidateIdle
    /\ RetryIdle
    /\ MainIdle

InLoop ==
    /\ pc \in {"batch_start", "batch_loop"}
    /\ batch_pos <= Len(batch_texts)

\* if not texts: return []
ReturnEmpty ==
    /\ pc = "batch_start"
    /\ batch_texts = <<>>
    /\ pc' = "batch_returned"
    /\ UNCHANGED <<batchVars, notBatchVars>>

\* One turn of the loop that makes no call
AppendText ==
    /\ InLoop
    /\ ~MustFlush(batch, batch_size, batch_texts[batch_pos])
    /\ batch' = Append(batch, batch_texts[batch_pos])
    /\ batch_size' = batch_size + batch_texts[batch_pos].len
    /\ batch_pos' = batch_pos + 1
    /\ pc' = "batch_loop"
    /\ UNCHANGED <<batch_texts, api_calls, api_replies, all_faithful, results,
                   notBatchVars>>

\* One turn of the loop, up to the call of _call_api(batch)
FlushInLoop ==
    /\ InLoop
    /\ MustFlush(batch, batch_size, batch_texts[batch_pos])
    /\ api_calls' = Append(api_calls, batch)
    /\ pc' = "batch_call"
    /\ UNCHANGED <<batch_texts, batch_pos, batch, batch_size, api_replies,
                   all_faithful, results, notBatchVars>>

\* The call returns: results.extend, the reset, and the rest of the turn
CallReturns ==
    /\ pc = "batch_call"
    /\ \E reply \in Replies(batch) :
           /\ results' = results \o reply
           /\ all_faithful' = (all_faithful /\ Len(reply) = Len(batch))
    /\ api_replies' = api_replies + 1
    /\ batch' = <<batch_texts[batch_pos]>>
    /\ batch_size' = batch_texts[batch_pos].len
    /\ batch_pos' = batch_pos + 1
    /\ pc' = "batch_loop"
    /\ UNCHANGED <<batch_texts, api_calls, notBatchVars>>

\* After the loop: if batch: the call of _call_api(batch)
FlushAtEnd ==
    /\ pc = "batch_loop"
    /\ batch_pos > Len(batch_texts)
    /\ batch # <<>>
    /\ api_calls' = Append(api_calls, batch)
    /\ pc' = "batch_last_call"
    /\ UNCHANGED <<batch_texts, batch_pos, batch, batch_size, api_replies,
                   all_faithful, results, notBatchVars>>

\* The last call returns: results.extend, return results
LastCallReturns ==
    /\ pc = "batch_last_call"
    /\ \E reply \in Replies(batch) :
           /\ results' = results \o reply
           /\ all_faithful' = (all_faithful /\ Len(reply) = Len(batch))
    /\ api_replies' = api_replies + 1
    /\ pc' = "batch_returned"
    /\ UNCHANGED <<batch_texts, batch_pos, batch, batch_size, api_calls,
                   notBatchVars>>

NextBatch ==
    \/ ReturnEmpty
    \/ AppendText
    \/ FlushInLoop
    \/ CallReturns
    \/ FlushAtEnd
    \/ LastCallReturns

SpecBatch == InitBatch /\ [][NextBatch]_vars

\* ------------------------------------------------------------------------
\* Claims about translate_markdown_file (checked under Spec)
\* ------------------------------------------------------------------------

Classified == pc \notin {"read", "classify"}
Extracted == pc \notin {"read", "classify", "extract"}
Reconstructed == pc \in {"postprocess", "done"}
IdentityTranslation == translated_texts = texts_to_translate
HasChar(s, c) == \E k \in 1..Len(s) : s[k] = c
NoneHasChar(texts, c) == \A k \in 1..Len(texts) : ~HasChar(texts[k], c)
ResultLines == SplitOn(result, LF)
SegmentsOfLine(i) == {k \in 1..Len(segments) : segments[k].line_idx = i}

\* A fence line, read off the line itself: blanks, then three backticks
IsFenceLine(l) ==
    \E i \in 1..Len(l) :
        /\ \A k \in 1..(i - 1) : l[k] \in {" ", TAB}
        /\ i + 2 <= Len(l)
        /\ l[i] = BT /\ l[i + 1] = BT /\ l[i + 2] = BT

FenceLinesBefore(k) == Cardinality({j \in 1..(k - 1) : IsFenceLine(lines[j])})

\* C2 (as claimed): when no returned string holds a newline, the output has
\* as many lines as the input and every line classified code or
\* pass-through is at its index, unchanged.
C2_CodeAndPassThroughUntouched ==
    (pc = "done" /\ NoneHasChar(translated_texts, LF)) =>
        /\ Len(ResultLines) = Len(lines)
        /\ \A k \in 1..Len(lines) :
               line_types[k] \in {"code", "pass-through"} =>
                   ResultLines[k] = lines[k]

\* C3: every line classified so far is "code" exactly when it is a fence
\* line or an odd number of fence lines precede it; so a line inside an open
\* fence is never translatable or pass-through.
C3_CodeIffFenceOrInsideFence ==
    \A k \in 1..Len(line_types) :
        line_types[k] = "code" <=>
            (IsFenceLine(lines[k]) \/ FenceLinesBefore(k) % 2 = 1)

\* C3 witness: an unterminated fence; the last line of the document is not
\* a fence line and was classified code.
C3_Witness ==
    /\ Classified
    /\ in_code_block
    /\ Len(lines) >= 2
    /\ ~IsFenceLine(lines[Len(lines)])
    /\ line_types[Len(lines)] = "code"

\* The translatable lines with something left after the prefixes
LinesWithContent ==
    {k \in 1..Len(lines) :
        line_types[k] = "translatable" /\ SplitPrefix(lines[k]).text # <<>>}

\* C4: after phase 2 there are as many segments as translatable lines with
\* non-empty remaining content; each such line has exactly one segment, with
\* its own index, and no other line has any.
C4_SegmentationComplete ==
    Extracted =>
        /\ Len(segments) = Cardinality(LinesWithContent)
        /\ \A k \in 1..Len(lines) :
               Cardinality(SegmentsOfLine(k)) =
                   (IF k \in LinesWithContent THEN 1 ELSE 0)

\* C4 witness: a document with a segment, a translatable line that gives
\* none and a line that is not translatable.
C4_Witness ==
    /\ Extracted
    /\ segments # <<>>
    /\ \E k \in 1..Len(lines) :
           line_types[k] = "translatable" /\ k \notin LinesWithContent
    /\ \E k \in 1..Len(lines) : line_types[k] # "translatable"

\* C5 (as claimed): a returned list of another length than the work list is
\* never mapped onto the segments, and nothing is reconstructed from it.
C5_FailFastOnLengthMismatch ==
    Len(translated_texts) # Len(texts_to_translate) =>
        pc \notin {"reconstruct", "postprocess", "done"}

TableRowSegments == {k \in 1..Len(segments) : segments[k].type = "table_row"}

\* C6: the reconstructed line of every table row starts and ends with a
\* pipe, and, when no returned string holds a pipe, has as many pipes (so as
\* many cells, one pipe between neighbours) as the source row.
C6_TableRowPipes ==
    Reconstructed =>
        \A k \in TableRowSegments :
            LET out == output_lines[segments[k].line_idx]
                src == lines[segments[k].line_idx]
            IN  /\ out # <<>>
                /\ out[1] = "|"
                /\ out[Len(out)] = "|"
                /\ NoneHasChar(translated_texts, "|") =>
                       /\ CountChar(out, "|") = CountChar(src, "|")
                       /\ CountChar(out, "|") = Len(segments[k].cells) - 1

\* C6 witness: a reconstructed table row with an empty cell between two
\* non-empty ones, translated by a translator that changed the cells.
C6_Witness ==
    /\ Reconstructed
    /\ ~IdentityTranslation
    /\ NoneHasChar(translated_texts, "|")
    /\ \E k \in TableRowSegments :
           \E c \in 2..(Len(segments[k].cells) - 1) :
               /\ segments[k].cells[c].text = <<>>
               /\ segments[k].cells[c - 1].text # <<>>
               /\ segments[k].cells[c + 1].text # <<>>

\* C7 (as claimed): under an identity translation the reconstructed line of
\* every segment, table rows included, is the original line: its structural
\* prefix, then its body or its joined cells.
C7_LosslessWithPrefix ==
    (Reconstructed /\ IdentityTranslation) =>
        \A k \in 1..Len(segments) :
            /\ StartsWith(output_lines[segments[k].line_idx], segments[k].prefix)
            /\ output_lines[segments[k].line_idx] = lines[segments[k].line_idx]

\* An even number of fence lines: every fence that opens is closed
FencesClosed == FenceLinesBefore(Len(lines) + 1) % 2 = 0

\* C12 (as claimed): for a document whose fences are closed, translated by
\* a translator that returns its inputs unchanged, validate_translation
\* returns an empty list.
C12_IdentityValidatesClean ==
    (pc = "validated" /\ IdentityTranslation /\ FencesClosed) => errors = <<>>

\* The two glyph sets, read off the claim: the diagram glyphs, and those
\* with the hyphen and the asterisk
DiagramGlyphs == {BOX, "|", "+", "\\", "/", ">", "<", "="}

DiagramGlyphsAndMarkers == DiagramGlyphs \cup {"-", "*"}

BlankLine(l) == \A k \in 1..Len(l) : IsSpace(l[k])

\* | ... | with only hyphens, colons, pipes and blanks between, once trimmed
TableSeparatorLine(l) ==
    LET t == Strip(l)
    IN  /\ Len(t) >= 3
        /\ t[1] = "|" /\ t[Len(t)] = "|"
        /\ \A k \in 2..(Len(t) - 1) : t[k] \in {"-", ":", "|"} \/ IsSpace(t[k])

\* (a): after left-trim the line starts with three characters of the set
StartsWithThreeOf(l, set) ==
    LET t == LStrip(l)
    IN  Len(t) >= 3 /\ t[1] \in set /\ t[2] \in set /\ t[3] \in set

\* (b): more than 40% of the trimmed line's characters are in the set
OverFortyPercentOf(l, set) ==
    LET t == Strip(l)
    IN  5 * Cardinality({k \in 1..Len(t) : t[k] \in set}) > 2 * Len(t)

PassThroughBy(l, startSet, ratioSet) ==
    \/ BlankLine(l)
    \/ TableSeparatorLine(l)
    \/ StartsWithThreeOf(l, startSet)
    \/ OverFortyPercentOf(l, ratioSet)

ClassifiedBy(startSet, ratioSet) ==
    \A k \in 1..Len(line_types) :
        line_types[k] # "code" =>
            /\ line_types[k] \in {"pass-through", "translatable"}
            /\ line_types[k] = "pass-through"
                   <=> PassThroughBy(lines[k], startSet, ratioSet)

\* C15 (as claimed): a line outside code is pass-through exactly when it is
\* blank, a table separator, or ASCII art, where (a) and (b) use one and the
\* same glyph set, whichever of the two it is.
C15_PassThroughByOneGlyphSet ==
    \/ ClassifiedBy(DiagramGlyphsAndMarkers, DiagramGlyphsAndMarkers)
    \/ ClassifiedBy(DiagramGlyphs, DiagramGlyphs)

\* C15 (amended): the same with two sets: (a) looks for the diagram glyphs,
\* the hyphen and the asterisk, (b) counts the diagram glyphs only.
C15_PassThroughByTwoGlyphSets ==
    ClassifiedBy(DiagramGlyphsAndMarkers, DiagramGlyphs)

\* C15 witness: a classified document with a translatable line more than
\* 40% of which is asterisks, a pass-through line that starts with a hyphen
\* and two asterisks, and a pass-through line that is so by its ratio only
C15_Witness ==
    /\ Classified
    /\ \E k \in 1..Len(lines) :
           /\ line_types[k] = "translatable"
           /\ OverFortyPercentOf(lines[k], {"*"})
    /\ \E k \in 1..Len(lines) :
           /\ line_types[k] = "pass-through"
           /\ StartsWithThreeOf(lines[k], {"-", "*"})
    /\ \E k \in 1..Len(lines) :
           /\ line_types[k] = "pass-through"
           /\ ~StartsWithThreeOf(lines[k], DiagramGlyphsAndMarkers)
           /\ OverFortyPercentOf(lines[k], DiagramGlyphs)

\* ------------------------------------------------------------------------
\* Claims about protect_inline_elements / restore_placeholders
\* (checked under SpecProtect)
\* ------------------------------------------------------------------------

\* C1: protecting a text and restoring the protected text, which came back
\* from translation unchanged, with the same placeholder map gives exactly
\* the original text.
C1_RoundTripIdentity == pc = "restored" => restored = text

\* C13 (as claimed): for a text that holds no token of its own, no value
\* stored in the placeholder map holds a placeholder token: no pass works
\* inside a span an earlier pass replaced or inside an inline code span.
C13_NoTokenInsideStoredValue ==
    (pc \in {"restore", "restored"} /\ ~HasLeftover(text)) =>
        \A k \in 1..Len(placeholders) : ~HasLeftover(placeholders[k].original)

\* The tokens of a text: what ph_re matches, wherever it starts
TokensIn(s) ==
    {SubSeq(s, i, ph_re(s, i) - 1) : i \in {j \in 1..Len(s) : ph_re(s, j) # 0}}

\* C14 (as claimed): what restore_placeholders returns holds no token that
\* is not a key of the map (every spurious token is deleted) and no token
\* that is a key (every such token is replaced by its original).
C14_NoTokenLeftAfterRestore ==
    pc = "restored" =>
        /\ \A t \in TokensIn(restored) : t \in known(placeholders)
        /\ \A t \in TokensIn(restored) : t \notin known(placeholders)

\* ------------------------------------------------------------------------
\* Claims about fix_heading_anchors / text_to_anchor (checked under
\* SpecAnchor)
\* ------------------------------------------------------------------------

Returned == pc = "returned"

CountsDiffer == Len(src_headings) # Len(tgt_headings)

\* C8: when the source and the translation have different numbers of
\* headings the translated content is returned unchanged, and the remapping
\* steps run only when the two counts are equal.
C8_UnchangedWhenHeadingCountsDiffer ==
    /\ (Returned /\ CountsDiffer) => anchored = translated_content
    /\ pc \in {"build", "rewrite"} => ~CountsDiffer

\* C8's case: a returned run with differing counts in which the first
\* headings have different slugs and the translation links to the source one
C8_Witness ==
    /\ Returned
    /\ CountsDiffer
    /\ src_headings # <<>>
    /\ tgt_headings # <<>>
    /\ text_to_anchor(src_headings[1].text)
           # text_to_anchor(tgt_headings[1].text)
    /\ text_to_anchor(tgt_headings[1].text) # <<>>
    /\ Find(translated_content,
            FragmentLink(text_to_anchor(src_headings[1].text)), 1) # 0

\* The rewrite the map describes, made in one pass over the translated
\* content: a link whose slug is a key gets that key's value, every other
\* character is copied
MapKeyAt(s, i, map) ==
    {k \in 1..Len(map) : StartsAt(s, FragmentLink(map[k].src), i)}

RECURSIVE OnePassRewrite(_, _, _)
OnePassRewrite(s, i, map) ==
    IF i > Len(s) THEN <<>>
    ELSE IF MapKeyAt(s, i, map) # {}
         THEN LET k == CHOOSE k \in MapKeyAt(s, i, map) : TRUE
              IN  FragmentLink(map[k].tgt)
                      \o OnePassRewrite(s, i + Len(FragmentLink(map[k].src)), map)
         ELSE <<s[i]>> \o OnePassRewrite(s, i + 1, map)

\* C9: with equal heading counts, every fragment link whose slug is a
\* changed source slug points, in the result, to the slug of the
\* positionally corresponding translated heading, and every other link is
\* as it was.
C9_LinksPointToCorrespondingHeading ==
    (Returned /\ ~CountsDiffer) =>
        anchored = OnePassRewrite(translated_content, 1, anchor_map)

\* The slug as the claim describes it: markup stripped, trimmed, lowercased,
\* characters other than letters, digits, spaces and hyphens removed, spaces
\* turned into hyphens
SlugKeeps(c) == IsLetter(c) \/ IsDigit(c) \/ c = " " \/ c = "-"

KeepSlugChars(s) == SelectSeq(s, SlugKeeps)

SlugKeepingLetters(t) ==
    SpacesToHyphens(
        KeepSlugChars(
            Lower(Strip(StripStars(LinksToText(StripBackticks(t, 1), 1))))))

\* C10: the slug of a heading keeps every letter of the heading text,
\* accented ones included, and drops only what is not a letter, a digit, a
\* space or a hyphen.
C10_SlugKeepsAccentedLetters ==
    \A k \in DOMAIN src_anchors :
        src_anchors[k] = SlugKeepingLetters(src_headings[k].text)

\* ------------------------------------------------------------------------
\* Claims about the emphasis post-pass (checked under SpecBold)
\* ------------------------------------------------------------------------

IsBlank(c) == c \in {" ", TAB}

NotBlank(c) == ~IsBlank(c)

\* The contents of the bold spans of a line, as \*\*(.+?)\*\* finds them
RECURSIVE BoldContents(_, _)
BoldContents(s, i) ==
    IF i > Len(s) THEN <<>>
    ELSE IF RE_BOLD_TEXT(s, i) # 0
         THEN <<SubSeq(s, i + 2, RE_BOLD_TEXT(s, i) - 3)>>
                  \o BoldContents(s, RE_BOLD_TEXT(s, i))
         ELSE BoldContents(s, i + 1)

HasBlankEdge(c) == IsBlank(c[1]) \/ IsBlank(c[Len(c)])

StarEdged(c) ==
    LET t == SelectSeq(c, NotBlank)
    IN  t # <<>> /\ (t[1] = "*" \/ t[Len(t)] = "*")

NoStarEdgedSpan(line) ==
    \A k \in 1..Len(BoldContents(line, 1)) :
        ~StarEdged(BoldContents(line, 1)[k])

CallEnded == pc \in {"returned", "exited"}

NoSuccess == \A k \in 1..Len(responses) : responses[k] # "200"

SameKind(r1, r2) == (r1 = "429") <=> (r2 = "429")

\* C16 (as claimed): at most RETRY_ATTEMPTS requests are made, the time
\* slept after a failure grows with the attempt number (for failures of one
\* kind: rate limit, or error), and a call all of whose requests failed
\* ends the run: it never returns its argument.
C16_ExhaustedRetriesAreFatal ==
    /\ Len(responses) <= RETRY_ATTEMPTS
    /\ \A j, k \in 1..Len(waits) :
           (j < k /\ SameKind(responses[j], responses[k])) => waits[j] < waits[k]
    /\ (CallEnded /\ NoSuccess) => (pc = "exited" /\ returned = "nothing")

\* ------------------------------------------------------------------------
\* Claims about main (checked under SpecMain)
\* ------------------------------------------------------------------------

Happened(d, what) == \E k \in 1..Len(log) : log[k] = <<d, what>>

Before(d, first, second) ==
    \A k \in 1..Len(log) :
        log[k] = <<d, second>> => \E j \in 1..(k - 1) : log[j] = <<d, first>>

\* The loop has left document number i behind
Past(i) == doc_idx > i \/ pc = "summary"

\* C17: a document whose pipeline ran is written whatever the validation
\* returned: right after the validation the write is the next step, the
\* change-detection record is set only after the write, and once the loop
\* has gone on the document is written and recorded.
C17_WarningsNeverBlockOutput ==
    /\ (log # <<>> /\ log[Len(log)][2] = "validated") => pc = "write"
    /\ \A i \in 1..Len(Docs) :
           /\ Docs[i] \in cache_data => Docs[i] \in written
           /\ Before(Docs[i], "validated", "written")
           /\ Before(Docs[i], "written", "cached")
           /\ (Happened(Docs[i], "validated") /\ Past(i)) =>
                  (Docs[i] \in written /\ Docs[i] \in cache_data)

\* C17 witness: the first document got a warning, was written and recorded,
\* and the pipeline of the second has run as well
C17_Witness ==
    /\ all_errors # <<>>
    /\ Happened(Docs[1], "validated")
    /\ Head(all_errors) = "warning"
    /\ Docs[1] \in written
    /\ Docs[1] \in cache_data
    /\ Happened(Docs[2], "validated")
    /\ doc_idx = 2

\* ------------------------------------------------------------------------
\* Claims about DeepLTranslator.translate_batch (checked under SpecBatch)
\* ------------------------------------------------------------------------

RECURSIVE Flatten(_)
Flatten(ss) == IF ss = <<>> THEN <<>> ELSE Head(ss) \o Flatten(Tail(ss))

RECURSIVE CombinedLength(_)
CombinedLength(b) ==
    IF b = <<>> THEN 0 ELSE Head(b).len + CombinedLength(Tail(b))

InCall == pc \in {"batch_call", "batch_last_call"}

\* The texts collected and not yet handed to a call
Collected == IF InCall \/ pc = "batch_returned" THEN <<>> ELSE batch

\* C18: the calls are made one at a time; the batches issued so far, followed
\* by the one being collected, are the texts the loop has taken, in order (at
\* the return: the whole work list); no batch is empty; a batch of more than
\* one text has a combined length of at most MAX_BATCH_CHARS; and when every
\* call returned one string per input, the result has one string per text of
\* the work list, in its order.
C18_BatchesPartitionTheWorkList ==
    /\ Len(api_calls) - api_replies = (IF InCall THEN 1 ELSE 0)
    /\ Flatten(api_calls) \o Collected =
           SubSeq(batch_texts, 1, batch_pos - 1)
    /\ pc = "batch_returned" => Flatten(api_calls) = batch_texts
    /\ \A k \in 1..Len(api_calls) :
           /\ api_calls[k] # <<>>
           /\ Len(api_calls[k]) > 1 =>
                  CombinedLength(api_calls[k]) <= MAX_BATCH_CHARS
    /\ (pc = "batch_returned" /\ all_faithful) =>
           results = FullReply(batch_texts)

\* C18 witness: a returned run of several calls, one of them of two texts
\* and one of a single text longer than the limit, every reply complete
C18_Witness ==
    /\ pc = "batch_returned"
    /\ all_faithful
    /\ Len(api_calls) >= 2
    /\ \E k \in 1..Len(api_calls) : Len(api_calls[k]) > 1
    /\ \E k \in 1..Len(api_calls) :
           CombinedLength(api_calls[k]) > MAX_BATCH_CHARS
    /\ Len(results) = Len(batch_texts)

====
